---- MODULE Spec2Model ----
(***************************************************************************)
(* State-machine model of DashScopeWanxText2ImageBatch.run                 *)
(* (custom_nodes/dashscope_wanx_t2i_batch.py): parse the prompt list, and  *)
(* for every prompt create a task, poll it until a terminal status or the  *)
(* deadline, download every result image, then return the batch.           *)
(*                                                                         *)
(* Time is counted in ticks.  run() uses only differences of clock         *)
(* readings, now - t0, so the model moves the origin of the clock to each  *)
(* reading of t0.  The remote service is the environment: every HTTP call  *)
(* draws its outcome (exception or response document) from a small set.    *)
(***************************************************************************)
EXTENDS Integers, Sequences, FiniteSets, TLC

\* ---------------------------------------------------------------- bounds
MaxPrompts  == 2    \* longest prompt array
MaxResults  == 2    \* longest output.results array of a status response
MaxTimeout  == 2    \* largest timeout_sec, in ticks
MaxInterval == 2    \* largest poll_interval_sec, in ticks
MaxLag      == 1    \* longest duration of a status query

\* ------------------------------------------------- JSON values (abstract)
\* "None" is an absent key or JSON null; "" is the empty string.  Both are
\* falsy in Python, every other value used here is truthy.
None == "None"
Truthy(x) == x \notin {None, ""}
\* Python `a or b`
PyOr(a, b) == IF Truthy(a) THEN a ELSE b

PromptTexts == {"p1"}
\* Strings that are scanned are sequences of characters.
Whitespace == {" ", "\t"}
NegativePrompts == {<<>>, <<" ", "\t">>, <<" ", "x", " ">>}
TaskIds     == {"t1", "t2"}
Statuses    == {"SUCCEEDED", "FAILED", "CANCELED", "CANCELLED",
                "PENDING", "RUNNING", "UNKNOWN"}

SeqUpTo(S, n) == UNION {[1..k -> S] : k \in 0..n}

\* The value json.loads(prompts_json) yields, or the fact that it raises.
PromptInputs ==
    {[kind |-> "invalid", text |-> None, items |-> <<>>]}
    \cup {[kind |-> "string", text |-> s, items |-> <<>>] : s \in PromptTexts}
    \cup {[kind |-> "list", text |-> None, items |-> l] :
              l \in SeqUpTo(PromptTexts, MaxPrompts)}
    \cup {[kind |-> "mixedlist", text |-> None, items |-> <<>>],
          [kind |-> "other", text |-> None, items |-> <<>>]}

\* A create-task response document.  output: "absent" (missing, null or an
\* empty object), "object" (a dict, with its task_id in nested) or "scalar"
\* (a truthy value that is not a dict).
CreateResponses ==
    {[isdict |-> FALSE, output |-> "absent", nested |-> None, top |-> None]}
    \cup {[isdict |-> TRUE, output |-> "absent", nested |-> None, top |-> t] :
              t \in TaskIds \cup {None, ""}}
    \cup {[isdict |-> TRUE, output |-> "scalar", nested |-> None, top |-> t] :
              t \in TaskIds \cup {None}}
    \cup {[isdict |-> TRUE, output |-> "object", nested |-> n, top |-> t] :
              n \in TaskIds \cup {None, ""}, t \in TaskIds \cup {None, ""}}

\* One entry of output.results: something that is no dict, or a dict whose
\* url is absent, empty or a string.  The service names the k-th image of
\* the j-th job "u<j>_<k>".
UrlName(j, k) == "u" \o ToString(j) \o "_" \o ToString(k)
EntryKinds == {"nondict", "nourl", "emptyurl", "url"}
Entry(kind, j, k) ==
    CASE kind = "nondict"  -> [isdict |-> FALSE, url |-> None]
      [] kind = "nourl"    -> [isdict |-> TRUE, url |-> None]
      [] kind = "emptyurl" -> [isdict |-> TRUE, url |-> ""]
      [] OTHER             -> [isdict |-> TRUE, url |-> UrlName(j, k)]

\* The output.results field: absent/falsy, a truthy non-list, or a list.
NoResults == [kind |-> "absent", items |-> <<>>]
ResultFields(j) ==
    {NoResults, [kind |-> "notlist", items |-> <<>>]}
    \cup {[kind |-> "list", items |-> [k \in 1..Len(l) |-> Entry(l[k], j, k)]] :
              l \in SeqUpTo(EntryKinds, MaxResults)}

\* A task-status response document: nested is output.task_status, top is
\* the top-level task_status.  (output.results is drawn where it is read.)
StatusEnvelopes ==
    {[isdict |-> FALSE, output |-> "absent", nested |-> None, top |-> None]}
    \cup {[isdict |-> TRUE, output |-> "scalar", nested |-> None, top |-> None]}
    \cup {[isdict |-> TRUE, output |-> "absent", nested |-> None, top |-> t] :
              t \in Statuses \cup {None}}
    \cup {[isdict |-> TRUE, output |-> "object", nested |-> n, top |-> t] :
              n \in Statuses \cup {None}, t \in Statuses \cup {None}}

\* ------------------------------------------------------------ the program
VARIABLES
    prompts_json,       \* input: the parsed value of the prompts_json string
    n_per_prompt,       \* input
    negative_prompt,    \* input
    poll_interval_sec,  \* input, in ticks
    timeout_sec,        \* input, in ticks
    pc,                 \* position in run()
    prompts,            \* the list run() iterates over
    idx,                \* number of prompts the for loop has taken so far
    payload,            \* body of the current prompt's create-task request
    task_id,            \* task id of the current prompt
    t0,                 \* start of the current job's polling
    delay,              \* the argument of the pending time.sleep
    final,              \* the SUCCEEDED status document, as far as read
    results,            \* results list of the current job
    ri,                 \* number of entries of results the inner loop has taken
    images_tensors,     \* accumulated images
    urls,               \* accumulated urls
    error,              \* the exception run() raised, or None
    ret,                \* the value run() returned
    now,                \* the wall clock, time.time(), since the origin
    \* history variables (not read by the program)
    spent,              \* ticks the run took before the origin of the clock,
                        \* counted up to timeout_sec
    expected,           \* the usable urls of every results list received
    yield,              \* per succeeded job: entries sent, usable entries
    job                 \* what happened in the current job

vars == <<prompts_json, n_per_prompt, negative_prompt, poll_interval_sec,
          timeout_sec, pc, prompts, idx, payload, task_id, t0, delay, final, results, ri, images_tensors, urls,
          error, ret, now, spent, expected, yield, job>>

inputs == <<prompts_json, n_per_prompt, negative_prompt, poll_interval_sec,
            timeout_sec>>

\* No request body yet.  An absent negative_prompt key is has_negative =
\* FALSE.
NoPayload == [prompt |-> None, n |-> 0, has_negative |-> FALSE,
              negative_prompt |-> <<>>]

NoRet == [returned |-> FALSE, images |-> <<>>, urls_json |-> <<>>, image_count |-> 0]
\* The history of the current job.
\*   noid      the create-task response held a task id in neither place
\*   want      the task id the response held: the nested one, else the top one
\*   polled    the task id of the last status query
\*   queries   status queries issued
\*   clean     every query that did not succeed ended in a transport error
\*   open      no query was answered with SUCCEEDED, FAILED, CANCELED or
\*             CANCELLED, nor with a document that has no status to read
\*   terminal  the FAILED, CANCELED or CANCELLED status received
\*   sleeps    sleeps performed, and slept, the sum of their arguments
\*   downloads downloads issued
\*   event     the first failure event: a create, status or download request
\*             answered non-2xx or not at all, a response without task id,
\*             a failed status, a missed deadline, a document without
\*             status or results, an image that does not decode
\*   after     requests, sleeps and returns since that event
\*   got       what the output.results of the SUCCEEDED document was:
\*             "absent", "notlist", "empty" or "list"
NewJob == [noid |-> FALSE, want |-> None, polled |-> None, queries |-> 0,
           clean |-> TRUE, open |-> TRUE, terminal |-> None, sleeps |-> 0,
           slept |-> 0, downloads |-> 0, event |-> None, after |-> 0,
           got |-> None]

Init ==
    /\ prompts_json \in PromptInputs
    /\ n_per_prompt \in 1..MaxResults
    /\ negative_prompt \in NegativePrompts
    /\ poll_interval_sec \in 1..MaxInterval
    /\ timeout_sec \in 1..MaxTimeout
    /\ pc = "parse"
    /\ prompts = <<>>
    /\ idx = 0
    /\ payload = NoPayload
    /\ task_id = None
    /\ t0 = 0
    /\ delay = 0
    /\ final = None
    /\ results = <<>>
    /\ ri = 0
    /\ images_tensors = <<>>
    /\ urls = <<>>
    /\ error = None
    /\ ret = NoRet
    /\ now = 0
    /\ spent = 0
    /\ expected = <<>>
    /\ yield = <<>>
    /\ job = NewJob

\* --------------------------------------------------- the code's functions
\* Variant: a bare string is refused like any other value that is no list.
ParsePromptsStrict(v) ==
    CASE v.kind = "invalid" -> [error |-> "invalid_json", prompts |-> <<>>]
      [] v.kind = "list"    -> [error |-> None, prompts |-> v.items]
      [] OTHER              -> [error |-> "not_string_array", prompts |-> <<>>]

\* Lines 82-90: json.loads, a bare string becomes a one-element list, and
\* anything but a list of strings is refused.
ParsePrompts(v) ==
    CASE v.kind = "invalid" -> [error |-> "invalid_json", prompts |-> <<>>]
      [] v.kind = "string"  -> [error |-> None, prompts |-> <<v.text>>]
      [] v.kind = "list"    -> [error |-> None, prompts |-> v.items]
      [] OTHER              -> [error |-> "not_string_array", prompts |-> <<>>]

\* str.strip(): leading and trailing whitespace removed.
RECURSIVE LStrip(_)
LStrip(s) ==
    IF s = <<>> THEN <<>>
    ELSE IF Head(s) \in Whitespace THEN LStrip(Tail(s)) ELSE s
RECURSIVE RStrip(_)
RStrip(s) ==
    IF s = <<>> THEN <<>>
    ELSE IF s[Len(s)] \in Whitespace THEN RStrip(SubSeq(s, 1, Len(s) - 1))
    ELSE s

\* Variant: no stripping.
NoStrip(s) == s

Strip(s) == RStrip(LStrip(s))

\* Lines 106-119: the request body; negative_prompt is set, as given, when
\* negative_prompt.strip() is a non-empty string.
Payload(prompt, n, negative) ==
    [prompt |-> prompt, n |-> n,
     has_negative |-> Strip(negative) # <<>>,
     negative_prompt |-> IF Strip(negative) # <<>> THEN negative ELSE <<>>]

\* Lines 130-133: (resp.get("output") or {}).get("task_id") or
\* resp.get("task_id"), for a dict; a truthy output that is no dict has no
\* .get and raises AttributeError.
TaskIdOf(resp) ==
    IF ~resp.isdict THEN None
    ELSE IF resp.output = "scalar" THEN "AttributeError"
    ELSE PyOr(resp.nested, resp.top)

\* Variant: the polling of every job is timed from the start of the first.
\* before is the time between that start and the clock reading.
BatchStart(clock, before) == clock - before

\* Line 139: t0 = time.time(), in the body of the for loop.
JobStart(clock, before) == clock

\* Variants of the deadline test: one tick early, one tick late.
DeadlineReached(t, start, timeout) == t - start >= timeout
DeadlinePassedByOne(t, start, timeout) == t - start > timeout + 1

\* Line 142: time.time() - t0 > timeout_sec
DeadlineExceeded(t, start, timeout) == t - start > timeout

\* Line 147: `except Exception` catches whatever _http_json raised:
\* urllib's URLError and socket timeouts ("transport"), HTTPError for a
\* non-2xx response ("http") and json's decode error ("json").
QueryExceptions == {"transport", "http", "json"}
Retried(exc) == exc \in {"transport", "http", "json"}

\* Variant: a shorter sleep between two polls.
HalfDelay(interval) == interval \div 2

\* Variant: a retry that backs off.
RetryBackoff(interval) == 2 * interval

\* Lines 149 and 161: the argument of time.sleep
RetryDelay(interval) == interval
PollDelay(interval) == interval

\* Lines 152-153: out = (sresp.get("output") or {}) if isinstance(sresp,
\* dict) else {}; out.get("task_status") or sresp.get("task_status").
\* sresp.get does not exist when sresp is no dict, out.get when output is a
\* truthy non-dict.
TaskStatusOf(sresp) ==
    IF ~sresp.isdict THEN "AttributeError"
    ELSE IF sresp.output = "scalar" THEN "AttributeError"
    ELSE PyOr(sresp.nested, sresp.top)

\* Variant: only one spelling of the cancelled status.
IsFailedOneSpelling(st) == st \in {"FAILED", "CANCELED"}

\* Lines 155 and 158
IsSucceeded(st) == st = "SUCCEEDED"
IsFailed(st) == st \in {"FAILED", "CANCELED", "CANCELLED"}

\* Variant: an empty results list is let through.
ResultsOfAnyList(doc) ==
    LET field == IF doc.output = "object" THEN doc.results ELSE NoResults
    IN  IF field.kind = "list"
        THEN [ok |-> TRUE, items |-> field.items]
        ELSE [ok |-> FALSE, items |-> <<>>]

\* Lines 164-167: results = (final.get("output") or {}).get("results") or
\* []; an empty or non-list value is refused.  doc is the document final.
ResultsOf(doc) ==
    LET field == IF doc.output = "object" THEN doc.results ELSE NoResults
    IN  IF field.kind = "list" /\ Len(field.items) > 0
        THEN [ok |-> TRUE, items |-> field.items]
        ELSE [ok |-> FALSE, items |-> <<>>]

\* Lines 170-171: u = r.get("url") if isinstance(r, dict) else None
UrlOf(r) == IF r.isdict THEN r.url ELSE None
Usable(u) == Truthy(u)

\* Lines 31-35: one decoded image is a tensor of batch size 1; src stands
\* for its pixels, which are those the url serves.
ImageOf(u) == [batch |-> 1, src |-> u]

\* Variant: the url is not recorded.
KeepUrls(us, u) == us

\* Variant: the newest url first.
PrependUrl(us, u) == <<u>> \o us

\* Lines 174-175
AppendImage(images, img) == Append(images, img)
AppendUrl(us, u) == Append(us, u)

\* Line 180: torch.cat(dim=0) adds the batch sizes up.
RECURSIVE BatchSize(_)
BatchSize(images) ==
    IF images = <<>> THEN 0
    ELSE Head(images).batch + BatchSize(Tail(images))

\* Line 181
ReturnValue(images, us) ==
    [returned |-> TRUE, images |-> images, urls_json |-> us,
     image_count |-> BatchSize(images)]

\* Variant: an empty batch passes.
NeverEmpty(images) == FALSE

\* Line 177: `not images_tensors`
IsEmpty(images) == images = <<>>

\* Variant: the same entry again.
SameEntry(k) == k

\* Variant: every other entry.
SkipEntry(k) == k + 2

\* Line 169: the inner for loop takes the entries one after the other.
NextEntry(k) == k + 1

\* Lines 169-172: the urls the inner loop will download from a results list
RECURSIVE UsableUrls(_)
UsableUrls(items) ==
    IF items = <<>> THEN <<>>
    ELSE (IF Usable(UrlOf(Head(items))) THEN <<UrlOf(Head(items))>> ELSE <<>>)
         \o UsableUrls(Tail(items))

\* ------------------------------------------------------------ the actions
\* History: a failure event, of which the job keeps the first.
Event(j, kind) == IF j.event = None THEN [j EXCEPT !.event = kind] ELSE j
\* History: a request, a sleep or a return, counted if an event preceded it.
Did(j) == IF j.event # None THEN [j EXCEPT !.after = 1] ELSE j

\* History: what a create-task response holds, read off the document.
HoldsTaskId(resp) ==
    resp.isdict /\ (Truthy(resp.top) \/ (resp.output = "object" /\ Truthy(resp.nested)))
HeldTaskId(resp) ==
    IF ~resp.isdict THEN None
    ELSE IF resp.output = "object" /\ Truthy(resp.nested) THEN resp.nested
    ELSE IF Truthy(resp.top) THEN resp.top
    ELSE None

\* History: the time the run took so far, counted up to timeout_sec.
Spent(before, d) ==
    IF before + d > timeout_sec THEN timeout_sec ELSE before + d

\* History: the kind of output.results field, read off the document.
ResultsKind(r) ==
    IF r.kind = "list" /\ Len(r.items) = 0 THEN "empty" ELSE r.kind

\* run() raises: nothing is returned.
Raise(kind) ==
    /\ pc' = "failed"
    /\ error' = kind

Proceed(next) ==
    /\ pc' = next
    /\ error' = error

\* Lines 81-103
Parse ==
    /\ pc = "parse"
    /\ LET p == ParsePrompts(prompts_json)
       IN  /\ prompts' = p.prompts
           /\ IF p.error # None THEN Raise(p.error) ELSE Proceed("for")
    /\ UNCHANGED <<inputs, payload, idx, task_id, t0, delay, final, results, ri, images_tensors,
                   urls, ret, now, spent, expected, yield, job>>

\* Lines 105-140: the next prompt's create-task request, its task id, and
\* the start of its polling.
Submit ==
    /\ pc = "for"
    /\ idx < Len(prompts)
    /\ idx' = idx + 1
    /\ payload' = Payload(prompts[idx'], n_per_prompt, negative_prompt)
    /\ \/ \E exc \in {"transport", "http", "json"} :
            /\ Raise(IF exc = "http" THEN "create_http" ELSE "create_failed")
            /\ job' = Event(NewJob, "create_" \o exc)
            /\ UNCHANGED <<task_id, t0, now>>
       \/ \E resp \in CreateResponses :
            LET id == TaskIdOf(resp)
                j  == [NewJob EXCEPT !.noid = ~HoldsTaskId(resp),
                                     !.want = HeldTaskId(resp)]
            IN  IF id = "AttributeError"
                THEN /\ Raise("attribute_error")
                     /\ job' = Event(j, "create_response")
                     /\ UNCHANGED <<task_id, t0, now>>
                ELSE IF ~Truthy(id)
                THEN /\ Raise("no_task_id")
                     /\ job' = Event(j, "create_response")
                     /\ task_id' = None
                     /\ UNCHANGED <<t0, now>>
                ELSE /\ task_id' = id
                     /\ now' = 0
                     /\ t0' = JobStart(now', spent)
                     /\ job' = j
                     /\ Proceed("check")
    /\ UNCHANGED <<inputs, prompts, delay, final, results, ri, images_tensors,
                   urls, ret, spent, expected, yield>>

\* Lines 141-143: the head of the polling loop.
Check ==
    /\ pc = "check"
    /\ IF DeadlineExceeded(now, t0, timeout_sec)
       THEN Raise("timeout") /\ job' = Event(job, "deadline")
       ELSE Proceed("query") /\ job' = job
    /\ UNCHANGED <<inputs, payload, prompts, idx, task_id, t0, delay, final, results, ri,
                   images_tensors, urls, ret, now, spent, expected, yield>>

\* Lines 145-150: the status query raised.
QueryRaised(exc) ==
    LET j == [Did(job) EXCEPT !.queries = @ + 1, !.polled = task_id,
                              !.clean = @ /\ exc = "transport"]
    IN  /\ job' = IF exc = "http" THEN Event(j, "status_http") ELSE j
        /\ final' = final
        /\ IF Retried(exc)
           THEN delay' = RetryDelay(poll_interval_sec) /\ Proceed("sleep")
           ELSE delay' = delay /\ Raise("status_" \o exc)

\* Lines 152-161: the status query was answered with the document sresp.
QueryAnswered(sresp) ==
    LET st == TaskStatusOf(sresp)
        j  == [Did(job) EXCEPT !.queries = @ + 1, !.polled = task_id]
    IN  IF st = "AttributeError"
        THEN /\ Raise("attribute_error")
             /\ job' = Event([j EXCEPT !.open = FALSE], "status_response")
             /\ UNCHANGED <<delay, final>>
        ELSE IF IsSucceeded(st)
        THEN /\ final' = sresp.output
             /\ job' = [j EXCEPT !.open = FALSE]
             /\ delay' = delay
             /\ Proceed("collect")
        ELSE /\ job' = IF st \in {"FAILED", "CANCELED", "CANCELLED"}
                       THEN Event([j EXCEPT !.open = FALSE, !.terminal = st,
                                             !.clean = FALSE], st)
                       ELSE [j EXCEPT !.clean = FALSE]
             /\ final' = final
             /\ IF IsFailed(st)
                THEN delay' = delay /\ Raise("job_failed")
                ELSE delay' = PollDelay(poll_interval_sec) /\ Proceed("sleep")

\* Lines 145-161: one status query, which takes d ticks.
Query ==
    /\ pc = "query"
    /\ \E d \in 0..MaxLag :
        /\ now' = now + d
        /\ \/ \E exc \in QueryExceptions : QueryRaised(exc)
           \/ \E sresp \in StatusEnvelopes : QueryAnswered(sresp)
    /\ UNCHANGED <<inputs, payload, prompts, idx, task_id, t0, results, ri,
                   images_tensors, urls, ret, spent, expected, yield>>

\* Lines 163-167: the results of the SUCCEEDED document.  The model draws
\* output.results here, where run() first reads it.  The polling loop is
\* over: task_id, t0 and the clock are not read again before the next
\* prompt sets them, the model forgets them, and the job's history starts
\* afresh.  The time the polling took is kept in spent.
Collect ==
    /\ pc = "collect"
    /\ \E r \in (IF final = "object" THEN ResultFields(idx) ELSE {NoResults}) :
        LET rs == ResultsOf([output |-> final, results |-> r])
        IN  IF rs.ok
            THEN /\ results' = rs.items
                 /\ ri' = 0
                 /\ expected' = expected \o UsableUrls(rs.items)
                 /\ yield' = Append(yield,
                        [sent |-> Len(rs.items),
                         usable |-> Len(UsableUrls(rs.items))])
                 /\ job' = [NewJob EXCEPT !.got = ResultsKind(r)]
                 /\ Proceed("fetch")
            ELSE /\ Raise("no_results")
                 /\ job' = Event([NewJob EXCEPT !.got = ResultsKind(r)],
                                 "no_results")
                 /\ UNCHANGED <<results, ri, expected, yield>>
    /\ final' = None
    /\ task_id' = None
    /\ t0' = 0
    /\ now' = 0
    /\ spent' = Spent(spent, now)
    /\ UNCHANGED <<inputs, payload, prompts, idx, delay, images_tensors, urls, ret>>

\* Lines 149 and 161: time.sleep(delay); a late wake-up counts as time the
\* next query takes.
Sleep ==
    /\ pc = "sleep"
    /\ now' = now + delay
    /\ delay' = 0
    /\ job' = [Did(job) EXCEPT !.sleeps = @ + 1, !.slept = @ + delay]
    /\ Proceed("check")
    /\ UNCHANGED <<inputs, payload, prompts, idx, task_id, t0, final, results, ri,
                   images_tensors, urls, ret, spent, expected, yield>>

\* Lines 169-175: one entry of results: skipped, or downloaded, decoded and
\* appended.  After the last entry the loop over the prompts goes on;
\* results is not read again, and the model forgets it.  A download that
\* succeeds takes d ticks.
Fetch ==
    /\ pc = "fetch"
    /\ ri < Len(results)
    /\ LET u    == UrlOf(results[ri + 1])
           last == NextEntry(ri) >= Len(results)
           next == IF last THEN "for" ELSE "fetch"
           j    == [Did(job) EXCEPT !.downloads = @ + 1]
       IN  /\ ri' = IF last THEN 0 ELSE NextEntry(ri)
           /\ results' = IF last THEN <<>> ELSE results
           /\ IF ~Usable(u)
              THEN /\ Proceed(next)
                   /\ UNCHANGED <<images_tensors, urls, job, spent>>
              ELSE \/ /\ Raise("download_failed")
                      /\ job' = Event(j, "download")
                      /\ UNCHANGED <<images_tensors, urls, spent>>
                   \/ /\ Raise("decode_failed")
                      /\ job' = Event(j, "decode")
                      /\ UNCHANGED <<images_tensors, urls, spent>>
                   \/ /\ images_tensors' = AppendImage(images_tensors, ImageOf(u))
                      /\ urls' = AppendUrl(urls, u)
                      /\ job' = j
                      /\ \E d \in 0..MaxLag : spent' = Spent(spent, d)
                      /\ Proceed(next)
    /\ UNCHANGED <<inputs, payload, prompts, idx, task_id, t0, delay, final, ret, now,
                   expected, yield>>

\* Lines 177-181: the loop over the prompts is over.  torch.cat raises when
\* the images do not all have the same height and width.
Finish ==
    /\ pc = "for"
    /\ idx >= Len(prompts)
    /\ IF IsEmpty(images_tensors)
       THEN Raise("empty_batch") /\ UNCHANGED <<ret, job>>
       ELSE \/ /\ ret' = ReturnValue(images_tensors, urls)
               /\ job' = Did(job)
               /\ Proceed("done")
            \/ /\ Len(images_tensors) >= 2
               /\ Raise("cat_failed")
               /\ UNCHANGED <<ret, job>>
    /\ UNCHANGED <<inputs, payload, prompts, idx, task_id, t0, delay, final, results, ri,
                   images_tensors, urls, now, spent, expected, yield>>

Next ==
    \/ Parse
    \/ Submit
    \/ Check
    \/ Query
    \/ Collect
    \/ Sleep
    \/ Fetch
    \/ Finish

Spec == Init /\ [][Next]_vars

\* One prompt, given as a bare string, under every timing and without
\* negative prompt: the polling of one job.
PollInit == Init /\ prompts_json.kind = "string" /\ negative_prompt = <<>>
PollSpec == PollInit /\ [][Next]_vars

\* Every prompt list, with the shortest timing, a timeout and a poll
\* interval of one tick, and without negative prompt.
BatchInit ==
    Init /\ timeout_sec = 1 /\ poll_interval_sec = 1 /\ negative_prompt = <<>>
BatchSpec == BatchInit /\ [][Next]_vars

\* Every prompt list and every negative prompt, with the shortest timing
\* and one image per prompt: the request bodies.
PayloadInit ==
    Init /\ timeout_sec = 1 /\ poll_interval_sec = 1 /\ n_per_prompt = 1
PayloadSpec == PayloadInit /\ [][Next]_vars

\* The polling of one job when run() keeps running: it is one thread, and
\* every call it makes returns or raises.
LiveSpec == PollInit /\ [][Next]_vars /\ WF_vars(Next)

\* ------------------------------------------------------------- the claims
Polling == pc \in {"check", "query", "sleep"}
Elapsed == now - t0

\* C1: the image list and the url list always have the same length, one
\* image per url; what run() returns is the usable urls of all results
\* entries received, in the order received, and their number.  Entries
\* without a usable url are passed over.
UrlsAreTheUsableOnes ==
    /\ Len(images_tensors) = Len(urls)
    /\ \A k \in 1..Len(urls) : images_tensors[k] = ImageOf(urls[k])
    /\ pc = "done" =>
        /\ ret.returned
        /\ ret.urls_json = expected
        /\ ret.image_count = Len(expected)

\* C1 witness: a returned batch of two prompts, the second of which sent an
\* entry without usable url.
UrlsWitness ==
    /\ pc = "done"
    /\ Len(yield) = 2
    /\ yield[1].usable = 2
    /\ yield[2].sent = 2
    /\ yield[2].usable = 1
    /\ ret.image_count = 3

\* C2 (as claimed): after any failure event run() has raised, has returned
\* nothing, and has issued no request since.
FailFast ==
    job.event # None => (pc = "failed" /\ ~ret.returned /\ job.after = 0)

NoQueryPastDeadline ==
    /\ pc = "query" => Elapsed <= timeout_sec
    /\ (pc = "failed" /\ error = "timeout") => job.sleeps = job.queries

\* C4 witness: the deadline check stopped a job that had been sleeping
\* after its query, one tick past the budget.
DeadlineWitness ==
    /\ error = "timeout"
    /\ Elapsed = timeout_sec + 1
    /\ job.queries >= 1
    /\ job.sleeps = job.queries

\* C5: k transport errors followed by SUCCEEDED: the job succeeds after
\* exactly k sleeps of poll_interval_sec each; and a polling loop that saw
\* transport errors only fails in the timeout and nothing else.
TransportErrorsAreSleptOn ==
    /\ (pc = "collect" /\ job.clean) =>
          /\ job.sleeps = job.queries - 1
          /\ job.slept = (job.queries - 1) * poll_interval_sec
    /\ (pc = "failed" /\ job.clean /\ job.open /\ job.queries > 0) =>
          error = "timeout"

\* C5 witness: SUCCEEDED after two transport errors and two sleeps.
TransportWitness ==
    /\ pc = "collect"
    /\ job.clean
    /\ job.queries = 3
    /\ job.sleeps = 2
    /\ job.slept = 2 * poll_interval_sec

\* C6: once a status of FAILED, CANCELED or CANCELLED was read, run() has
\* raised the job-failed error; every earlier query was followed by its
\* sleep and this one by none, and nothing was downloaded.
FailedStatusAborts ==
    job.terminal # None =>
        /\ pc = "failed"
        /\ error = "job_failed"
        /\ job.sleeps = job.queries - 1
        /\ job.downloads = 0
        /\ ~ret.returned

\* C6 witness: CANCELLED read by the second prompt's second query.
FailedStatusWitness ==
    /\ job.terminal = "CANCELLED"
    /\ idx = 2
    /\ job.queries = 2
    /\ pc = "failed"

\* C7 (as claimed): a request answered non-2xx is followed by no sleep and
\* no request: run() has raised.
RemoteErrorNotRetried ==
    job.event \in {"create_http", "status_http"} =>
        (pc = "failed" /\ delay = 0 /\ job.after = 0)

\* C8 (as claimed): a create-task response without task id raises the
\* missing-task-id error and is followed by no status query; a status
\* query names the nested task id when there is one.
MissingTaskIdRaises ==
    /\ job.noid => (pc = "failed" /\ error = "no_task_id" /\ job.queries = 0)
    /\ job.polled # None => job.polled = job.want

\* C9: if every job sent exactly n_per_prompt entries, all usable, the
\* batch returned holds n_per_prompt images per prompt, prompt after
\* prompt and in the order sent.
FullBatch ==
    (/\ pc = "done"
     /\ \A p \in 1..Len(yield) :
            yield[p].sent = n_per_prompt /\ yield[p].usable = n_per_prompt)
    => /\ ret.image_count = Len(prompts) * n_per_prompt
       /\ Len(ret.urls_json) = Len(prompts) * n_per_prompt
       /\ \A p \in 1..Len(prompts) : \A k \in 1..n_per_prompt :
              ret.urls_json[(p - 1) * n_per_prompt + k] = UrlName(p, k)

\* C9 witness: two prompts, two images each.
FullBatchWitness ==
    /\ pc = "done"
    /\ Len(prompts) = 2
    /\ n_per_prompt = 2
    /\ \A p \in 1..2 : yield[p].sent = 2 /\ yield[p].usable = 2
    /\ ret.image_count = 4

\* C10 (as claimed): every prompt of a returned batch contributed an image.
EveryPromptContributes ==
    pc = "done" => \A p \in 1..Len(prompts) : yield[p].usable >= 1

\* C11: a SUCCEEDED document whose output.results is absent, no list or an
\* empty list makes run() raise the no-results error, with no download for
\* that task; the error has no other cause.
NoResultsRaises ==
    /\ job.got \in {"absent", "notlist", "empty"} =>
          /\ pc = "failed"
          /\ error = "no_results"
          /\ job.downloads = 0
          /\ results = <<>>
          /\ ~ret.returned
    /\ error = "no_results" => job.got \in {"absent", "notlist", "empty"}

\* C11 witness: the second prompt's task succeeded with a results field
\* that is no list, after the first prompt's image was downloaded.
NoResultsWitness ==
    /\ pc = "failed"
    /\ error = "no_results"
    /\ job.got = "notlist"
    /\ idx = 2
    /\ Len(urls) >= 1

\* C12: an empty prompt list raises the empty-batch error with no request
\* issued; a run whose prompts were all processed without one image raises
\* it too, and never returns; the error has no other cause.
EmptyBatchRaises ==
    /\ (prompts_json.kind = "list" /\ prompts_json.items = <<>>) =>
          /\ pc \in {"parse", "for", "failed"}
          /\ pc = "failed" => error = "empty_batch"
          /\ idx = 0
          /\ job = NewJob
          /\ yield = <<>>
    /\ pc = "done" => (images_tensors # <<>> /\ ret.image_count > 0)
    /\ (pc = "failed" /\ error # "not_string_array" /\ error # "invalid_json"
           /\ job.event = None /\ images_tensors = <<>>) =>
          (error = "empty_batch" /\ idx = Len(prompts))
    /\ error = "empty_batch" =>
          (pc = "failed" /\ images_tensors = <<>> /\ idx = Len(prompts)
             /\ ~ret.returned)

\* C12 witness: two prompts processed, both tasks succeeded, and no results
\* entry had a usable url.
EmptyBatchWitness ==
    /\ pc = "failed"
    /\ error = "empty_batch"
    /\ Len(prompts) = 2
    /\ Len(yield) = 2
    /\ yield[1].usable = 0
    /\ yield[2].usable = 0

\* C13: the bare string s parses to what the array [s] parses to, and the
\* rest of run() reads the parsed list only, so both runs go the same way;
\* a parsed value that is neither a string nor an array of strings raises
\* the input error before any request.
BareStringIsOneElementList ==
    /\ \A s \in PromptTexts :
          ParsePrompts([kind |-> "string", text |-> s, items |-> <<>>])
            = ParsePrompts([kind |-> "list", text |-> None, items |-> <<s>>])
    /\ (pc # "parse" /\ prompts_json.kind = "string") =>
          /\ prompts = <<prompts_json.text>>
          /\ error \notin {"invalid_json", "not_string_array"}
    /\ (pc # "parse" /\ prompts_json.kind \in {"mixedlist", "other"}) =>
          /\ pc = "failed"
          /\ error = "not_string_array"
          /\ idx = 0
          /\ job = NewJob
          /\ yield = <<>>
          /\ ~ret.returned

\* C13 witness: a run on a bare string that returned two images.
BareStringWitness ==
    /\ pc = "done"
    /\ prompts_json.kind = "string"
    /\ prompts = <<"p1">>
    /\ ret.image_count = 2

\* C14: the body of every create-task request has a negative_prompt field
\* exactly when the input negative prompt holds a character that is no
\* whitespace, and then the field is the input as given, untrimmed.
NegativePromptField ==
    idx > 0 =>
        /\ payload.prompt = prompts[idx]
        /\ payload.has_negative =
              (\E k \in 1..Len(negative_prompt) :
                   negative_prompt[k] \notin Whitespace)
        /\ payload.has_negative => payload.negative_prompt = negative_prompt

\* C14 witness: the second prompt's request carries a negative prompt with
\* its surrounding blanks.
NegativePromptWitness ==
    /\ idx = 2
    /\ negative_prompt = <<" ", "x", " ">>
    /\ payload.has_negative
    /\ payload.negative_prompt = <<" ", "x", " ">>

\* C15: prompts are taken one at a time and in order: at most one job was
\* submitted and not yet collected; whenever a prompt is submitted, polled
\* or collected, every usable url of the earlier prompts has been
\* downloaded; a job's downloads begin after its last status query, and
\* go through its urls in order.
OneJobAtATime ==
    /\ idx - Len(yield) \in {0, 1}
    /\ (Polling \/ pc = "collect") =>
          (idx = Len(yield) + 1 /\ task_id # None /\ job.downloads = 0)
    /\ pc \in {"for", "check", "query", "sleep", "collect", "done"} =>
          urls = expected
    /\ pc \in {"for", "fetch", "done"} => idx = Len(yield)
    /\ pc = "fetch" =>
          /\ job.queries = 0
          /\ Len(urls) <= Len(expected)
          /\ urls = SubSeq(expected, 1, Len(urls))

\* C15 witness: the second prompt is being polled after the two downloads
\* of the first.
OneJobWitness ==
    /\ pc = "query"
    /\ idx = 2
    /\ job.queries = 1
    /\ urls = <<UrlName(1, 1), UrlName(1, 2)>>

\* C16 (as claimed): a job none of whose status queries was answered with
\* FAILED, CANCELED or CANCELLED fails through the deadline only.
NonTerminalKeepsPolling ==
    (pc = "failed" /\ job.queries > 0 /\ job.terminal = None) =>
        error = "timeout"

\* C17: the create-task request is issued once per prompt at most and no
\* url is downloaded twice; a failed submission or download is followed by
\* no request: run() has raised.
NoRetryOutsidePolling ==
    /\ idx <= Len(prompts)
    /\ job.downloads <= (IF yield = <<>> THEN 0 ELSE yield[Len(yield)].usable)
    /\ \A a, b \in 1..Len(urls) : a # b => urls[a] # urls[b]
    /\ job.event \in {"create_transport", "create_http", "create_json",
                      "download", "decode"} =>
          (pc = "failed" /\ job.after = 0 /\ job.queries = 0 /\ ~ret.returned)

\* C17 witness: the second download of a job failed and run() has raised.
NoRetryWitness ==
    /\ pc = "failed"
    /\ error = "download_failed"
    /\ job.event = "download"
    /\ job.downloads = 2
    /\ Len(urls) = 1

\* C18 (as claimed): every polling loop ends, and ends in SUCCEEDED, in the
\* job-failed error or in the timeout error.
PollingEnds ==
    Polling ~> (\/ pc = "collect"
                \/ (pc = "failed" /\ error \in {"job_failed", "timeout"}))

\* C19: every job starts with the whole budget, and the time that counts
\* against it is the time of its own queries and sleeps, whatever the run
\* spent before; the timeout error is raised on that time only.
BudgetPerJob ==
    /\ (Polling /\ job.queries = 0 /\ job.sleeps = 0) => Elapsed = 0
    /\ Polling => Elapsed <= job.slept + job.queries * MaxLag
    /\ error = "timeout" =>
          /\ Elapsed > timeout_sec
          /\ Elapsed <= job.slept + job.queries * MaxLag

\* C19 witness: the second prompt is polled, past its first sleep, in a
\* run that has lasted more than timeout_sec in all.
BudgetWitness ==
    /\ pc = "query"
    /\ idx = 2
    /\ job.sleeps = 1
    /\ spent = timeout_sec
    /\ spent + Elapsed > timeout_sec

\* C20: a job issues at most floor(timeout_sec / poll_interval_sec) + 1
\* status queries.
QueriesBounded ==
    job.queries <= (timeout_sec \div poll_interval_sec) + 1

\* C20 witness: three queries with a budget of two ticks and an interval
\* of one, then the timeout.
QueriesBoundWitness ==
    /\ pc = "failed"
    /\ error = "timeout"
    /\ timeout_sec = 2
    /\ poll_interval_sec = 1
    /\ job.queries = 3

====
